---------------------------- MODULE Spec2Model ----------------------------
(***************************************************************************)
(* A model of qcmon/utilities.py: the masking, region-mean, region-graph,  *)
(* scaling and masked-loading helpers.                                     *)
(*                                                                         *)
(* The functions are stateless.  Each specification draws the arguments of *)
(* one family of calls from bounded sets in its initial states and has one *)
(* action per function, which performs the call and records what it        *)
(* returns (or the exception it raises) in ret.                            *)
(*                                                                         *)
(* Representation.                                                         *)
(*   - A 2-D array is a sequence of rows; Python's 0-based voxel indices   *)
(*     are kept, so data row i is data[i + 1].                             *)
(*   - A float is an extended rational <<n, d>> in lowest terms with       *)
(*     d > 0, or <<0,0>> (NaN), <<1,0>> (+inf), <<-1,0>> (-inf).           *)
(*     Arithmetic is exact; rounding is not modelled.                      *)
(*   - The module is Python 2 code (os.walk(..).next(), len(filter(..))),  *)
(*     so '/' on two integer arrays is floor division, and numpy is one    *)
(*     of its time, which accepts the float-valued index list of maskdata. *)
(*   - A raised exception is a result whose err field names its kind:      *)
(*     check_dims -> ShapeMismatch, check_mask -> InvalidMask, the rule    *)
(*     and threshold checks -> InvalidArgument.                            *)
(***************************************************************************)
EXTENDS Integers, Sequences, FiniteSets, TLC

VARIABLES pc, data, mask, rule, threshold, val, factors, ts, func, ret

vars == <<pc, data, mask, rule, threshold, val, factors, ts, func, ret>>

(* Bounds of the model. *)
MaxVox == 3
MaxT == 2
MaxCells == 6
MaxLen == 3

(* The value a variable holds in a specification that does not use it. *)
Unused == <<>>

(* ------------------------------------------------------------------ *)
(* Arithmetic                                                         *)
(* ------------------------------------------------------------------ *)

Sgn(x) == IF x > 0 THEN 1 ELSE IF x < 0 THEN -1 ELSE 0

Abs(x) == IF x < 0 THEN -x ELSE x

RECURSIVE GCD(_, _)
GCD(a, b) == IF b = 0 THEN a ELSE GCD(b, a % b)

(* The float n/d. *)
F(n, d) ==
    IF d = 0 THEN <<Sgn(n), 0>>
    ELSE LET g == GCD(Abs(n), Abs(d))
             s == Sgn(d)
         IN  <<(s * n) \div g, (s * d) \div g>>

NaN == <<0, 0>>

IsNaN(x) == x = NaN

IsFinite(x) == x[2] # 0

FromInt(x) == <<x, 1>>

(* IEEE operations on operands that are finite or NaN. *)
FAdd(a, b) ==
    IF IsNaN(a) \/ IsNaN(b) THEN NaN
    ELSE F(a[1] * b[2] + b[1] * a[2], a[2] * b[2])

FSub(a, b) ==
    IF IsNaN(a) \/ IsNaN(b) THEN NaN
    ELSE F(a[1] * b[2] - b[1] * a[2], a[2] * b[2])

FMul(a, b) ==
    IF IsNaN(a) \/ IsNaN(b) THEN NaN
    ELSE F(a[1] * b[1], a[2] * b[2])

FDiv(a, b) ==
    IF IsNaN(a) \/ IsNaN(b) THEN NaN
    ELSE IF b[1] = 0 THEN <<Sgn(a[1]), 0>>
    ELSE F(a[1] * b[2], a[2] * b[1])

FLess(a, b) == a[1] * b[2] < b[1] * a[2]

RECURSIVE SumSeq(_)
SumSeq(s) == IF s = <<>> THEN 0 ELSE s[1] + SumSeq(Tail(s))

RECURSIVE FSumSeq(_)
FSumSeq(s) == IF s = <<>> THEN FromInt(0) ELSE FAdd(s[1], FSumSeq(Tail(s)))

SetMin(S) == CHOOSE x \in S : \A y \in S : x <= y

(* The elements of S in ascending order. *)
RECURSIVE SortedSeq(_)
SortedSeq(S) ==
    IF S = {} THEN <<>>
    ELSE LET m == SetMin(S) IN <<m>> \o SortedSeq(S \ {m})

Range(s) == {s[i] : i \in 1..Len(s)}

(* ------------------------------------------------------------------ *)
(* numpy                                                              *)
(* ------------------------------------------------------------------ *)

(* np.shape(a)[0] and np.shape(a)[1] of a 2-D array. *)
NRows(a) == Len(a)

NCols(a) == IF Len(a) = 0 THEN 0 ELSE Len(a[1])

(* np.unique: the sorted distinct elements. *)
Unique(s) == SortedSeq(Range(s))

(* np.setdiff1d: the sorted distinct elements of a that are not in b. *)
SetDiff1d(a, b) == SortedSeq(Range(a) \ Range(b))

Holds(r, x, t) ==
    CASE r = "=" -> x = t
      [] r = ">" -> x > t
      [] r = "<" -> x < t

(* np.where(mask <r> t)[0]: the row of every true entry of the comparison
   of the N x C mask (C <= 1) with the operand t, in row-major order; a
   scalar operand is a one-element t, a list operand broadcasts along the
   columns. *)
RECURSIVE Where(_, _, _, _)
Where(m, r, t, i) ==
    IF i >= NRows(m) THEN <<>>
    ELSE LET hits == IF Len(m[i + 1]) = 0 THEN <<>>
                     ELSE SelectSeq(t, LAMBDA x : Holds(r, m[i + 1][1], x))
         IN  [k \in 1..Len(hits) |-> i] \o Where(m, r, t, i + 1)

(* np.where(np.sum(data, axis=1) == 0)[0] *)
ZeroSumRows(d) ==
    SortedSeq({i \in 0..(NRows(d) - 1) : SumSeq(d[i + 1]) = 0})

(* data[idx, :] *)
TakeRows(d, idx) == [k \in 1..Len(idx) |-> d[idx[k] + 1]]

(* ------------------------------------------------------------------ *)
(* maskdata                                                           *)
(* ------------------------------------------------------------------ *)

Raise(kind) == [err |-> kind, data |-> <<>>, idx |-> <<>>]

check_dims(d, m) == NRows(d) # NRows(m)

(* A variant that rejects every mask without exactly one column. *)
check_mask_exactly_one(m) == NCols(m) # 1

check_mask(m) == NCols(m) > 1

(* The loop over the thresholds. *)
RECURSIVE ThresholdLoop(_, _, _, _)
ThresholdLoop(m, r, items, idx) ==
    IF items = <<>> THEN idx
    ELSE ThresholdLoop(m, r, Tail(items),
                       Unique(idx \o Where(m, r, items[1], 0)))

(* A variant that forgets to remove the zero-sum voxels. *)
RemoveZerosSkipped(idx, d) == SetDiff1d(idx, <<>>)

RemoveZeros(idx, d) == SetDiff1d(idx, ZeroSumRows(d))

maskdata(d, m, r, th) ==
    IF check_dims(d, m) THEN Raise("ShapeMismatch")
    ELSE IF check_mask(m) THEN Raise("InvalidMask")
    ELSE IF r \notin {"=", ">", "<"} THEN Raise("InvalidArgument")
    ELSE IF th.type # "list" THEN Raise("InvalidArgument")
    ELSE LET idx == RemoveZeros(ThresholdLoop(m, r, th.items, <<>>), d)
         IN  [err |-> "none", data |-> TakeRows(d, idx), idx |-> idx]

(* ------------------------------------------------------------------ *)
(* Inputs                                                             *)
(* ------------------------------------------------------------------ *)

DataVals == {-1, 0, 1}

MaskVals == {0, 1, 2}

Matrices(n, t, V) == [1..n -> [1..t -> V]]

Shapes == {s \in (1..MaxVox) \X (1..MaxT) : s[1] * s[2] <= MaxCells}

Scalar(x) == <<x>>

ListOf(xs) == [type |-> "list", items |-> [k \in 1..Len(xs) |-> Scalar(xs[k])]]

Bare(x) == [type |-> "number", items |-> <<Scalar(x)>>]

Thresholds == {ListOf(<<>>), ListOf(<<0>>), ListOf(<<1>>), ListOf(<<1, 0>>)}

Rules == {"=", ">", "<"}

(* ------------------------------------------------------------------ *)
(* maskdata on well-formed arguments                                  *)
(* ------------------------------------------------------------------ *)

InitMaskdata ==
    /\ pc = "call"
    /\ \E s \in Shapes :
          /\ data \in Matrices(s[1], s[2], DataVals)
          /\ mask \in Matrices(s[1], 1, MaskVals)
    /\ rule \in Rules
    /\ threshold \in Thresholds
    /\ val = Unused /\ factors = Unused /\ ts = Unused /\ func = Unused
    /\ ret = Unused

Maskdata ==
    /\ pc = "call"
    /\ ret' = maskdata(data, mask, rule, threshold)
    /\ pc' = "done"
    /\ UNCHANGED <<data, mask, rule, threshold, val, factors, ts, func>>

NextMaskdata == Maskdata

SpecMaskdata == InitMaskdata /\ [][NextMaskdata]_vars


(* The voxels that satisfy the rule for at least one threshold. *)
Qualifies(i) ==
    \E k \in 1..Len(threshold.items) :
        Holds(rule, mask[i + 1][1], threshold.items[k][1])

RowSum(i) == SumSeq(data[i + 1])

ConstantZero(i) == \A j \in 1..Len(data[i + 1]) : data[i + 1][j] = 0

StrictlyAscending(s) == \A k \in 1..(Len(s) - 1) : s[k] < s[k + 1]

(* C1: maskdata returns (rows, idx) where idx is the strictly ascending list
   of exactly the voxels i in 0..N-1 that satisfy the rule for at least one
   threshold and whose data row does not sum to zero, and rows[k] is data
   row idx[k] for every k. *)
C1_MaskdataSelects ==
    pc = "done" =>
        /\ ret.err = "none"
        /\ StrictlyAscending(ret.idx)
        /\ Range(ret.idx) =
               {i \in 0..(NRows(data) - 1) : Qualifies(i) /\ RowSum(i) # 0}
        /\ Len(ret.data) = Len(ret.idx)
        /\ \A k \in 1..Len(ret.idx) : ret.data[k] = data[ret.idx[k] + 1]

(* Two thresholds that select different voxels, two voxels kept and a
   qualifying voxel dropped for its zero sum. *)
C1_Witness ==
    /\ pc = "done"
    /\ Len(threshold.items) = 2
    /\ Len(ret.idx) >= 2
    /\ \E i \in 0..(NRows(data) - 1) :
          Qualifies(i) /\ RowSum(i) = 0 /\ i \notin Range(ret.idx)
    /\ \E i \in Range(ret.idx) :
          ~Holds(rule, mask[i + 1][1], threshold.items[1][1])

(* C2: a voxel that satisfies the rule is left out of the index set if and
   only if every value of its time series is zero. *)
C2_DroppedIffConstantZero ==
    pc = "done" =>
        \A i \in 0..(NRows(data) - 1) :
            Qualifies(i) => (i \notin Range(ret.idx) <=> ConstantZero(i))

(* ------------------------------------------------------------------ *)
(* maskdata on arguments of every shape and type                      *)
(* ------------------------------------------------------------------ *)

ArgVals == {0, 1}

ArgMaskCols == {0, 1, 2}

ArgRules == {"=", ">", "<", ">=", ""}

ArgThresholds == {ListOf(<<0>>), ListOf(<<>>), Bare(0)}

InitMaskdataArgs ==
    /\ pc = "call"
    /\ \E s \in Shapes : data \in Matrices(s[1], s[2], ArgVals)
    /\ \E n \in 1..MaxVox : \E c \in ArgMaskCols :
          mask \in Matrices(n, c, ArgVals)
    /\ rule \in ArgRules
    /\ threshold \in ArgThresholds
    /\ val = Unused /\ factors = Unused /\ ts = Unused /\ func = Unused
    /\ ret = Unused

SpecMaskdataArgs == InitMaskdataArgs /\ [][NextMaskdata]_vars

SameVoxelCount == NRows(data) = NRows(mask)

ValidRule == rule \in {"=", ">", "<"}

IsList == threshold.type = "list"

Failed == ret.err # "none" /\ ret.data = <<>> /\ ret.idx = <<>>

(* C5 as stated: maskdata returns a result only when data and mask have the
   same voxel count, the mask has exactly one value per voxel, the rule is
   valid and thresholds is a list; otherwise it fails, with the error of the
   first precondition that does not hold, and returns nothing. *)
C5_Original ==
    pc = "done" =>
        /\ ret.err = "none" <=>
               SameVoxelCount /\ NCols(mask) = 1 /\ ValidRule /\ IsList
        /\ ~SameVoxelCount => ret.err = "ShapeMismatch"
        /\ SameVoxelCount /\ NCols(mask) # 1 => ret.err = "InvalidMask"
        /\ SameVoxelCount /\ NCols(mask) = 1 /\ ~(ValidRule /\ IsList) =>
               ret.err = "InvalidArgument"
        /\ ret.err # "none" => Failed

(* C5 as amended: the mask precondition is at most one value per voxel; a
   mask with more than one value per voxel fails with InvalidMask, and a
   mask with no value per voxel is accepted. *)
C5_MaskdataPreconditions ==
    pc = "done" =>
        /\ ret.err = "none" <=>
               SameVoxelCount /\ NCols(mask) <= 1 /\ ValidRule /\ IsList
        /\ ~SameVoxelCount => ret.err = "ShapeMismatch"
        /\ SameVoxelCount /\ NCols(mask) > 1 => ret.err = "InvalidMask"
        /\ SameVoxelCount /\ NCols(mask) <= 1 /\ ~(ValidRule /\ IsList) =>
               ret.err = "InvalidArgument"
        /\ ret.err # "none" => Failed
        /\ ret.err = "none" /\ NCols(mask) = 0 => ret.idx = <<>>

(* A mask without any value per voxel, accepted. *)
C5_Witness ==
    /\ pc = "done"
    /\ NCols(mask) = 0
    /\ SameVoxelCount /\ ValidRule /\ IsList
    /\ ret.err = "none"


(* ------------------------------------------------------------------ *)
(* get_mean_roi and roi_graph                                         *)
(* ------------------------------------------------------------------ *)

Column(rows, j) == [k \in 1..Len(rows) |-> rows[k][j]]

(* A variant that leaves the zeros of a preallocated array where no row
   is selected. *)
NanMeanZeroWhenEmpty(rows, t) ==
    [j \in 1..t |-> IF Len(rows) = 0 THEN FromInt(0)
                    ELSE F(SumSeq(Column(rows, j)), Len(rows))]

(* A variant that sums the rows and never divides. *)
NanMeanSums(rows, t) ==
    [j \in 1..t |-> IF Len(rows) = 0 THEN NaN
                    ELSE F(SumSeq(Column(rows, j)), 1)]

(* np.nanmean(rows, axis=0) of a K x t array of numbers: the mean of each
   column, NaN where K = 0. *)
NanMean(rows, t) == [j \in 1..t |-> F(SumSeq(Column(rows, j)), Len(rows))]

(* val is a Python int, a numpy scalar or a list; the int is wrapped in a
   list, and [val] is the threshold list, of one operand. *)
WrapVal(v) == [type |-> "list", items |-> <<v.items>>]

get_mean_roi(d, m, v) ==
    LET r == maskdata(d, m, "=", WrapVal(v))
    IN  IF r.err # "none" THEN [err |-> r.err, mean |-> <<>>]
        ELSE [err |-> "none", mean |-> NanMean(r.data, NCols(d))]

(* filter(lambda x: x > 0, np.unique(mask)) *)
Rois(m) ==
    SelectSeq(SortedSeq({m[i][c] : i \in 1..NRows(m), c \in 1..NCols(m)}),
              LAMBDA x : x > 0)

(* A correlation coefficient r is kept as its sign and its square. *)
Corr(cov, vi, vj) ==
    LET sq == FDiv(FMul(cov, cov), FMul(vi, vj))
    IN  IF IsNaN(sq) THEN [sign |-> 0, square |-> NaN]
        ELSE [sign |-> Sgn(cov[1]), square |-> sq]

CorrIsNaN(e) == IsNaN(e.square)

RowMean(x) == FDiv(FSumSeq(x), FromInt(Len(x)))

(* np.cov of two rows: sum((x - mean x)(y - mean y)) / (T - 1). *)
Cov(x, y) ==
    LET mx == RowMean(x)
        my == RowMean(y)
        prods == [t \in 1..Len(x) |-> FMul(FSub(x[t], mx), FSub(y[t], my))]
    IN  FDiv(FSumSeq(prods), FromInt(Len(x) - 1))

(* np.corrcoef(x) of an R x T array: an R x R matrix, except that one row
   gives the 0-d result c / c of the scalar covariance c. *)
CorrCoef(x) ==
    IF Len(x) = 1
    THEN LET c == Cov(x[1], x[1])
         IN  [scalar |-> TRUE, G |-> Corr(c, c, c)]
    ELSE [scalar |-> FALSE,
          G |-> [i \in 1..Len(x) |->
                    [j \in 1..Len(x) |->
                        Corr(Cov(x[i], x[j]), Cov(x[i], x[i]),
                             Cov(x[j], x[j]))]]]

roi_graph(d, m) ==
    LET rois == Rois(m)
        rows == [i \in 1..Len(rois) |->
                    get_mean_roi(d, m, [type |-> "numpy",
                                        items |-> Scalar(rois[i])])]
    IN  IF \E i \in 1..Len(rois) : rows[i].err # "none"
        THEN [err |-> (CHOOSE e \in {rows[i].err : i \in 1..Len(rois)} :
                          e # "none"),
              ts |-> <<>>, scalar |-> FALSE, G |-> <<>>]
        ELSE LET tsr == [i \in 1..Len(rois) |-> rows[i].mean]
                 c == CorrCoef(tsr)
             IN  [err |-> "none", ts |-> tsr, scalar |-> c.scalar, G |-> c.G]

RoiMaskVals == {-1, 0, 1, 2}

Vals == {[type |-> "int", items |-> <<1>>],
         [type |-> "numpy", items |-> <<2>>],
         [type |-> "int", items |-> <<3>>],
         [type |-> "list", items |-> <<1, 2>>]}

InitRoi ==
    /\ pc = "call"
    /\ \E s \in Shapes :
          /\ data \in Matrices(s[1], s[2], DataVals)
          /\ mask \in Matrices(s[1], 1, RoiMaskVals)
    /\ val \in Vals
    /\ rule = Unused /\ threshold = Unused
    /\ factors = Unused /\ ts = Unused /\ func = Unused
    /\ ret = Unused

GetMeanRoi ==
    /\ pc = "call"
    /\ ret' = [op |-> "get_mean_roi", r |-> get_mean_roi(data, mask, val)]
    /\ pc' = "done"
    /\ UNCHANGED <<data, mask, rule, threshold, val, factors, ts, func>>

RoiGraph ==
    /\ pc = "call"
    /\ ret' = [op |-> "roi_graph", r |-> roi_graph(data, mask)]
    /\ pc' = "done"
    /\ UNCHANGED <<data, mask, rule, threshold, val, factors, ts, func>>

NextRoi == GetMeanRoi \/ RoiGraph

SpecRoi == InitRoi /\ [][NextRoi]_vars

RECURSIVE SetSum(_, _)
SetSum(S, j) ==
    IF S = {} THEN 0
    ELSE LET i == CHOOSE x \in S : TRUE
         IN  data[i + 1][j] + SetSum(S \ {i}, j)

(* x is the mean of column j over the voxels S: NaN when S is empty. *)
IsMeanOver(x, S, j) ==
    IF S = {} THEN IsNaN(x)
    ELSE x[2] > 0 /\ x[1] * Cardinality(S) = SetSum(S, j) * x[2]

IsMeanSeries(x, S) ==
    /\ Len(x) = NCols(data)
    /\ \A j \in 1..NCols(data) : IsMeanOver(x[j], S, j)

Labelled(labels) ==
    {i \in 0..(NRows(data) - 1) : mask[i + 1][1] \in labels}

Surviving(labels) == {i \in Labelled(labels) : RowSum(i) # 0}

MeanRoiDone == pc = "done" /\ ret.op = "get_mean_roi"

RoiGraphDone == pc = "done" /\ ret.op = "roi_graph"

(* C3 as stated: get_mean_roi(data, mask, v) is the column-wise mean over
   all data rows whose mask value equals v. *)
C3_Original ==
    MeanRoiDone =>
        /\ ret.r.err = "none"
        /\ IsMeanSeries(ret.r.mean, Labelled(Range(val.items)))

(* C3 as amended: get_mean_roi(data, mask, v) is the column-wise mean over
   the data rows whose mask value equals v and whose sum is not zero, and
   all NaN when there is no such row. *)
C3_MeanOfSurvivingRows ==
    MeanRoiDone =>
        /\ ret.r.err = "none"
        /\ IsMeanSeries(ret.r.mean, Surviving(Range(val.items)))

(* Two rows carry the label, one of them sums to zero and is left out of
   the mean. *)
C3_Witness ==
    /\ MeanRoiDone
    /\ Cardinality(Labelled(Range(val.items))) >= 2
    /\ Cardinality(Surviving(Range(val.items))) = 1
    /\ ~IsNaN(ret.r.mean[1])
    /\ ret.r.mean[1] # FromInt(0)

AllNaN(x) == \A j \in 1..Len(x) : IsNaN(x[j])

(* C6: when no voxel survives the selection for a label, get_mean_roi does
   not fail and returns a series of length T whose every entry is NaN, and
   roi_graph completes with every entry of that region's row being NaN
   (the single entry of the 0-d graph when there is one region). *)
C6_EmptySelectionIsNaN ==
    /\ MeanRoiDone /\ Surviving(Range(val.items)) = {} =>
           /\ ret.r.err = "none"
           /\ Len(ret.r.mean) = NCols(data)
           /\ AllNaN(ret.r.mean)
    /\ RoiGraphDone =>
           /\ ret.r.err = "none"
           /\ \A i \in 1..Len(Rois(mask)) :
                  Surviving({Rois(mask)[i]}) = {} =>
                      /\ AllNaN(ret.r.ts[i])
                      /\ IF ret.r.scalar THEN CorrIsNaN(ret.r.G)
                         ELSE \A j \in 1..Len(ret.r.G[i]) :
                                  CorrIsNaN(ret.r.G[i][j])

(* A graph of two regions, one with no surviving voxel and one whose mean
   series varies. *)
C6_Witness ==
    /\ RoiGraphDone
    /\ Len(Rois(mask)) = 2
    /\ Surviving({Rois(mask)[1]}) = {}
    /\ Labelled({Rois(mask)[1]}) # {}
    /\ ~CorrIsNaN(ret.r.G[2][2])

(* C7: roi_graph builds its graph from exactly R region series, R the number
   of distinct mask values greater than zero; series i is get_mean_roi of
   the i-th smallest positive label; the graph is an R x R matrix for every
   R >= 1. *)
C7_GraphOfPositiveLabels ==
    RoiGraphDone =>
        LET labels == {x \in {mask[i][1] : i \in 1..NRows(mask)} : x > 0}
            R == Cardinality(labels)
        IN  /\ ret.r.err = "none"
            /\ Len(ret.r.ts) = R
            /\ \A i \in 1..R :
                   LET l == CHOOSE x \in labels :
                                Cardinality({y \in labels : y < x}) = i - 1
                   IN  IsMeanSeries(ret.r.ts[i], Surviving({l}))
            /\ R >= 1 =>
                   /\ ~ret.r.scalar
                   /\ Len(ret.r.G) = R
                   /\ \A i \in 1..R : Len(ret.r.G[i]) = R

(* C7 for two regions and more: the part of the claim the code meets. *)
C7_GraphOfSeveralLabels ==
    RoiGraphDone /\ Len(Rois(mask)) # 1 => C7_GraphOfPositiveLabels


(* ------------------------------------------------------------------ *)
(* translate                                                          *)
(* ------------------------------------------------------------------ *)

(* '/' of two integer arrays: floor division, 0 where the divisor is 0. *)
FloorDiv(x, f) ==
    IF f = 0 THEN 0
    ELSE IF f > 0 THEN x \div f
    ELSE (-x) \div (-f)

Floats(d) == [i \in 1..Len(d) |-> [j \in 1..Len(d[i]) |-> FromInt(d[i][j])]]

(* A variant that subtracts the mean of the row, as "demean" suggests. *)
SubtractMean(row) ==
    LET m == F(SumSeq(row), Len(row))
    IN  [j \in 1..Len(row) |-> FSub(FromInt(row[j]), m)]

(* row / np.mean(row) *)
DivideByMean(row) ==
    LET m == F(SumSeq(row), Len(row))
    IN  [j \in 1..Len(row) |-> FDiv(FromInt(row[j]), m)]

(* The result of translate, and the caller's array after the call: the
   function rebinds its local name and leaves the array alone. *)
translate(d, fs) ==
    IF Len(fs) > 1 /\ NRows(d) # Len(fs)
    THEN [err |-> "ShapeMismatch", data |-> <<>>, arg |-> d]
    ELSE IF Len(fs) = 1
    THEN [err |-> "none",
          data |-> [i \in 1..Len(d) |->
                       [j \in 1..Len(d[i]) |->
                           FromInt(FloorDiv(d[i][j], fs[1]))]],
          arg |-> d]
    ELSE IF Len(fs) = 0
    THEN [err |-> "none",
          data |-> [i \in 1..Len(d) |-> DivideByMean(d[i])],
          arg |-> d]
    ELSE [err |-> "none", data |-> Floats(d), arg |-> d]

TranslateVals == {0, 1, 2}

FactorVals == {1, 2}

ExampleRow == <<2, 4, 6>>

FactorLists ==
    UNION {[1..k -> FactorVals] : k \in 0..(MaxVox + 1)} \cup {<<0>>}

InitTranslate ==
    /\ pc = "call"
    /\ \/ \E s \in Shapes : data \in Matrices(s[1], s[2], TranslateVals)
       \/ data = <<ExampleRow>>
    /\ factors \in FactorLists
    /\ mask = Unused /\ rule = Unused /\ threshold = Unused /\ val = Unused
    /\ ts = Unused /\ func = Unused
    /\ ret = Unused

Translate ==
    /\ pc = "call"
    /\ ret' = translate(data, factors)
    /\ pc' = "done"
    /\ UNCHANGED <<data, mask, rule, threshold, val, factors, ts, func>>

NextTranslate == Translate

SpecTranslate == InitTranslate /\ [][NextTranslate]_vars

(* x = a / b for integers a and b, b # 0. *)
IsQuotient(x, a, b) == x[2] > 0 /\ x[1] * b = a * x[2]

(* C4: with k > 1 factors and k rows, row i of the result is data row i
   divided by factors[i]; with k > 1 factors and another number of rows the
   call fails with a shape mismatch and returns no data. *)
C4_PerVoxelFactors ==
    pc = "done" /\ Len(factors) > 1 =>
        IF Len(factors) = NRows(data)
        THEN /\ ret.err = "none"
             /\ Len(ret.data) = NRows(data)
             /\ \A i \in 1..NRows(data) : \A j \in 1..NCols(data) :
                    IsQuotient(ret.data[i][j], data[i][j], factors[i])
        ELSE ret.err = "ShapeMismatch" /\ ret.data = <<>>

(* The part of C4 the code meets: the failure on a length mismatch. *)
C4_LengthMismatchFails ==
    pc = "done" /\ Len(factors) > 1 /\ Len(factors) # NRows(data) =>
        ret.err = "ShapeMismatch" /\ ret.data = <<>>

(* C9: with no factors, every row of the result is the input row divided by
   its own mean (the IEEE quotient where the mean is zero), [2,4,6] becomes
   [0.5,1,1.5], and the input data is not modified. *)
C9_EmptyFactorsDivideByMean ==
    pc = "done" /\ factors = <<>> =>
        /\ ret.err = "none"
        /\ Len(ret.data) = NRows(data)
        /\ \A i \in 1..NRows(data) :
              /\ Len(ret.data[i]) = NCols(data)
              /\ \A j \in 1..NCols(data) :
                    IF SumSeq(data[i]) # 0
                    THEN IsQuotient(ret.data[i][j], data[i][j] * NCols(data),
                                    SumSeq(data[i]))
                    ELSE ret.data[i][j] = <<Sgn(data[i][j]), 0>>
              /\ data[i] = ExampleRow =>
                    ret.data[i] = <<<<1, 2>>, <<1, 1>>, <<3, 2>>>>
        /\ ret.arg = data

(* The row [2,4,6] translated with no factors. *)
C9_Witness ==
    /\ pc = "done" /\ factors = <<>>
    /\ data = <<ExampleRow>>
    /\ ret.data = <<<<<<1, 2>>, <<1, 1>>, <<3, 2>>>>>>

(* ------------------------------------------------------------------ *)
(* scale_timeseries                                                   *)
(* ------------------------------------------------------------------ *)

(* np.min and np.max of a non-empty series: NaN if it holds a NaN. *)
FMin(x) ==
    IF \E k \in 1..Len(x) : IsNaN(x[k]) THEN NaN
    ELSE CHOOSE m \in Range(x) : \A y \in Range(x) : ~FLess(y, m)

FMax(x) ==
    IF \E k \in 1..Len(x) : IsNaN(x[k]) THEN NaN
    ELSE CHOOSE m \in Range(x) : \A y \in Range(x) : ~FLess(m, y)

(* ts / maximum: floor division for an integer series, true division for a
   float series. *)
Divide(dtype, a, b) ==
    IF dtype = "int" THEN FromInt(FloorDiv(a[1], b[1])) ELSE FDiv(a, b)

(* A variant that forgets to subtract the minimum. *)
ScaleWithoutShift(t) ==
    LET maximum == FMax(t.x)
    IN  [dtype |-> t.dtype,
         x |-> [k \in 1..Len(t.x) |-> Divide(t.dtype, t.x[k], maximum)]]

scale_timeseries(t) ==
    LET minimum == FMin(t.x)
        shifted == [k \in 1..Len(t.x) |-> FSub(t.x[k], minimum)]
        maximum == FMax(shifted)
    IN  [dtype |-> t.dtype,
         x |-> [k \in 1..Len(t.x) |-> Divide(t.dtype, shifted[k], maximum)]]

IntTsVals == {FromInt(-1), FromInt(0), FromInt(1), FromInt(2)}

FloatTsVals == IntTsVals \cup {F(1, 2)}

InitScale ==
    /\ pc = "call"
    /\ \E n \in 1..MaxLen :
          \/ ts \in [dtype : {"int"}, x : [1..n -> IntTsVals]]
          \/ ts \in [dtype : {"float"}, x : [1..n -> FloatTsVals]]
    /\ data = Unused /\ mask = Unused /\ rule = Unused /\ threshold = Unused
    /\ val = Unused /\ factors = Unused /\ func = Unused
    /\ ret = Unused

(* The first call. *)
Scale ==
    /\ pc = "call"
    /\ ret' = [once |-> scale_timeseries(ts)]
    /\ pc' = "scaled"
    /\ UNCHANGED <<data, mask, rule, threshold, val, factors, ts, func>>

(* A second call, on the result of the first. *)
ScaleAgain ==
    /\ pc = "scaled"
    /\ ret' = [once |-> ret.once, twice |-> scale_timeseries(ret.once)]
    /\ pc' = "rescaled"
    /\ UNCHANGED <<data, mask, rule, threshold, val, factors, ts, func>>

NextScale == Scale \/ ScaleAgain

SpecScale == InitScale /\ [][NextScale]_vars

NonConstant(x) == \E j, k \in 1..Len(x) : x[j] # x[k]

InUnitInterval(v) == IsFinite(v) /\ 0 <= v[1] /\ v[1] <= v[2]

(* C8: for a non-constant series, the scaled series has minimum 0, maximum 1
   and all values in [0, 1], and scaling it again returns it unchanged. *)
C8_ScaleIdempotent ==
    pc \in {"scaled", "rescaled"} /\ NonConstant(ts.x) =>
        /\ Len(ret.once.x) = Len(ts.x)
        /\ \E k \in 1..Len(ts.x) : ret.once.x[k] = FromInt(0)
        /\ \E k \in 1..Len(ts.x) : ret.once.x[k] = FromInt(1)
        /\ \A k \in 1..Len(ts.x) : InUnitInterval(ret.once.x[k])
        /\ pc = "rescaled" => ret.twice = ret.once

(* A series scaled twice that has a value strictly between 0 and 1. *)
C8_Witness ==
    /\ pc = "rescaled"
    /\ NonConstant(ts.x)
    /\ \E k \in 1..Len(ts.x) :
          0 < ret.twice.x[k][1] /\ ret.twice.x[k][1] < ret.twice.x[k][2]
    /\ ret.once.x # ts.x


(* ------------------------------------------------------------------ *)
(* load_masked_data and get_mask_dims                                 *)
(* ------------------------------------------------------------------ *)

(* An image is its shape and its values in C order, as nibabel's get_data()
   returns it; reshape keeps the values and changes the shape. *)
RECURSIVE Product(_)
Product(s) == IF s = <<>> THEN 1 ELSE s[1] * Product(Tail(s))

(* np.where(a > 0)[0] of an array of n rows and one value per row. *)
WherePositive(flat) ==
    SortedSeq({i \in 0..(Len(flat) - 1) : flat[i + 1] > 0})

(* A variant that takes every nonzero voxel of the mask. *)
WhereNonzero(flat) ==
    SortedSeq({i \in 0..(Len(flat) - 1) : flat[i + 1] # 0})

(* The index computed by load_masked_data. *)
LoadIdx(flat) == WherePositive(flat)

(* func.reshape(n, t)[idx, :] *)
TakeVoxels(flat, t, idx) ==
    [k \in 1..Len(idx) |-> [j \in 1..t |-> flat[idx[k] * t + j]]]

load_masked_data(f, m) ==
    IF Product(SubSeq(m.shape, 1, 3)) # Len(m.flat)
    THEN [err |-> "ValueError", rows |-> <<>>]
    ELSE LET idx == LoadIdx(m.flat)
             t == IF Len(f.shape) = 4 THEN f.shape[4] ELSE 1
             n == Product(SubSeq(f.shape, 1, 3))
         IN  IF \E k \in 1..Len(idx) : idx[k] >= n
             THEN [err |-> "IndexError", rows |-> <<>>]
             ELSE [err |-> "none", rows |-> TakeVoxels(f.flat, t, idx)]

get_mask_dims(m) ==
    IF Len(m.shape) # 3
    THEN [err |-> "DimensionalityError", idx |-> <<>>, dims |-> <<>>]
    ELSE [err |-> "none", idx |-> WherePositive(m.flat), dims |-> m.shape]

Grids == {g \in (1..MaxVox) \X (1..MaxVox) \X (1..MaxVox) :
             g[1] * g[2] * g[3] <= MaxVox}

Images(shape, V) == [shape : {shape}, flat : [1..Product(shape) -> V]]

LoadMaskVals == {-1, 0, 1}

FuncVals == {0, 1}

MaskShapes == Grids \cup {<<1, 1, 1, 1>>, <<1, 1, 1, 2>>, <<2, 1, 1, 1>>}

FuncShapes ==
    Grids \cup {g \o <<t>> : g \in Grids, t \in 1..MaxT}

(* The result of a call that was not made yet. *)
NotCalled == [err |-> "pending"]

InitLoad ==
    /\ pc = "call"
    /\ \E s \in MaskShapes : mask \in Images(s, LoadMaskVals)
    /\ \E s \in {x \in FuncShapes : Product(x) <= MaxCells} :
          func \in Images(s, FuncVals)
    /\ data = Unused /\ rule = Unused /\ threshold = Unused /\ val = Unused
    /\ factors = Unused /\ ts = Unused
    /\ ret = [load |-> NotCalled, dims |-> NotCalled]

LoadMaskedData ==
    /\ pc = "call"
    /\ ret.load = NotCalled
    /\ ret' = [ret EXCEPT !.load = load_masked_data(func, mask)]
    /\ pc' = IF ret.dims = NotCalled THEN "call" ELSE "done"
    /\ UNCHANGED <<data, mask, rule, threshold, val, factors, ts, func>>

GetMaskDims ==
    /\ pc = "call"
    /\ ret.dims = NotCalled
    /\ ret' = [ret EXCEPT !.dims = get_mask_dims(mask)]
    /\ pc' = IF ret.load = NotCalled THEN "call" ELSE "done"
    /\ UNCHANGED <<data, mask, rule, threshold, val, factors, ts, func>>

NextLoad == LoadMaskedData \/ GetMaskDims

SpecLoad == InitLoad /\ [][NextLoad]_vars

(* The value of the image at voxel (x, y, z) and timepoint t, 0-based. *)
At(img, x, y, z, t) ==
    LET s == img.shape
        nt == IF Len(s) = 4 THEN s[4] ELSE 1
    IN  img.flat[((x * s[2] + y) * s[3] + z) * nt + t + 1]

(* The coordinates of the voxel at position v of the flattened grid. *)
Unravel(s, v) == <<v \div (s[2] * s[3]), (v \div s[3]) % s[2], v % s[3]>>

SeriesOf(img, v) ==
    LET c == Unravel(img.shape, v)
        nt == IF Len(img.shape) = 4 THEN img.shape[4] ELSE 1
    IN  [j \in 1..nt |-> At(img, c[1], c[2], c[3], j - 1)]

SameGrid == Len(mask.shape) = 3 /\ SubSeq(func.shape, 1, 3) = mask.shape

(* C10: for the same 3D mask, load_masked_data returns exactly one row per
   index of the idx list of get_mask_dims, in the same ascending order, row
   k being the functional data of voxel idx[k]; idx holds every voxel of
   the mask greater than zero, whether or not its time series is all zero,
   and dims is the mask's shape. *)
C10_LoadAgreesWithMaskDims ==
    pc = "done" /\ SameGrid =>
        /\ ret.load.err = "none" /\ ret.dims.err = "none"
        /\ StrictlyAscending(ret.dims.idx)
        /\ Range(ret.dims.idx) =
               {v \in 0..(Product(mask.shape) - 1) :
                    LET c == Unravel(mask.shape, v)
                    IN  At(mask, c[1], c[2], c[3], 0) > 0}
        /\ Len(ret.load.rows) = Len(ret.dims.idx)
        /\ \A k \in 1..Len(ret.dims.idx) :
               ret.load.rows[k] = SeriesOf(func, ret.dims.idx[k])
        /\ ret.dims.dims = mask.shape

(* Two voxels in the mask, one with an all-zero time series that is kept,
   and a negative mask value left out. *)
C10_Witness ==
    /\ pc = "done" /\ SameGrid
    /\ Len(ret.load.rows) = 2
    /\ \E k \in 1..2 : \A j \in 1..Len(ret.load.rows[k]) :
          ret.load.rows[k][j] = 0
    /\ \E k \in 1..2 : \E j \in 1..Len(ret.load.rows[k]) :
          ret.load.rows[k][j] = 1
    /\ \E i \in 1..Len(mask.flat) : mask.flat[i] < 0

=============================================================================
